---------------------------- MODULE Spec2Model ----------------------------
(***************************************************************************)
(* A model of the rust CI timing tracker: the publisher                    *)
(* (src/bin/publish-data-to-s3.rs), which walks the git history newest     *)
(* first, looks every commit up on Travis and AppVeyor, fetches and caches *)
(* the job logs, extracts the timings and writes one record per commit,    *)
(* and the shared library (src/lib.rs).                                    *)
(*                                                                         *)
(* Text.  A log is a sequence of lines and a line a sequence of lexemes:   *)
(* the units the code's find / split / rsplitn calls cut a line into      *)
(* ("[TIMING] build -- 4.0" is <<"[TIMING]", "build", "--", "4.0">>, with  *)
(* one space between two lexemes).  Durations are counted in tenths        *)
(* of a second, so the f64 1.5 is 15; rounding of f64 sums is not          *)
(* modelled.                                                               *)
(***************************************************************************)
EXTENDS Integers, Sequences, FiniteSets, TLC

(***************************************************************************)
(* Bounds of the model.                                                    *)
(***************************************************************************)
\* Commits of the git history (get_git_commits lists them newest first).
NumCommits == 3

\* Builds per page of a vendor's build history (the requests ask for 25 and
\* 100; the model pages in smaller steps).
PageSize == 1

\* Runs of the publisher, one after the other on the same cache directory.
MaxRuns == 2

\* Failures of the environment (a request, a file operation) per behaviour.
MaxFaults == 1

\* requests counts the vendor requests of a run up to this number.
MaxRequests == 2

\* Longest log the timing extractor is run on by SpecTimings.
MaxLines == 4

\* Longest log identify_job and extract_cpu_microarch are called on by
\* SpecLogs.
MaxLogLines == 3

\* Commits build-site takes from the git log (take(100) in the code; the
\* model's window is shorter).
TakeLimit == 2

(***************************************************************************)
(* Option and map helpers (Option<T>, HashMap / BTreeMap).                 *)
(***************************************************************************)
None == << >>

Some(v) == << v >>

IsSome(o) == Len(o) = 1

Unwrap(o) == o[1]

EmptyMap == << >>

\* A variant of MapAdd that stores the value instead of adding it.
MapAddOverwrites(m, k, v) ==
    [x \in (DOMAIN m) \cup {k} |-> IF x = k THEN v ELSE m[x]]

\* *map.entry(k).or_insert(0.0) += v
MapAdd(m, k, v) ==
    IF k \in DOMAIN m THEN [m EXCEPT ![k] = @ + v] ELSE m @@ (k :> v)

\* for (k, v) in src { *dst.entry(k).or_insert(0.0) += v }
MapMerge(dst, src) ==
    [k \in (DOMAIN dst) \cup (DOMAIN src) |->
        (IF k \in DOMAIN dst THEN dst[k] ELSE 0)
      + (IF k \in DOMAIN src THEN src[k] ELSE 0)]

\* Iterator::sum, and a chain of += : the sum of f over S.
RECURSIVE SumOver(_, _)
SumOver(S, f) ==
    IF S = {} THEN 0
    ELSE LET x == CHOOSE y \in S : TRUE IN f[x] + SumOver(S \ {x}, f)

(***************************************************************************)
(* str::parse::<f64>: the numeric lexemes, in tenths.  Anything else (and  *)
(* any text of more than one lexeme) does not parse.                       *)
(***************************************************************************)
parse_f64(text) ==
    IF Len(text) # 1 THEN None
    ELSE CASE text[1] = "1.5" -> Some(15)
           [] text[1] = "2.0" -> Some(20)
           [] text[1] = "4.0" -> Some(40)
           [] OTHER -> None

(***************************************************************************)
(* find_get_after(content, needle) for the needles that end in a space     *)
(* ("[TIMING] ", "cpu family\t: "): the text after the first occurrence of *)
(* the marker.  The line is trimmed, so a marker that ends the line has no *)
(* space after it and is not found.                                        *)
(***************************************************************************)
FirstIndex(S) ==
    IF S # {} THEN Some(CHOOSE i \in S : \A j \in S : i <= j) ELSE None

find_get_after(content, needle) ==
    LET pos == FirstIndex({i \in 1..Len(content) :
                              content[i] = needle /\ i < Len(content)})
    IN  IF IsSome(pos) THEN Some(SubSeq(content, Unwrap(pos) + 1, Len(content)))
        ELSE None

(***************************************************************************)
(* extract_timings, one line of the loop body.  st is the state of the     *)
(* loop: ret (step -> Timing), parts (the pending buffer) and panicked     *)
(* (an unwrap() of the body failed, which ends the process).               *)
(***************************************************************************)
TimingDefault == [dur |-> 0, parts |-> EmptyMap]

ExtractInit == [ret |-> EmptyMap, parts |-> EmptyMap, panicked |-> FALSE]

\* A variant of DrainInto that iterates over the buffer without emptying it.
DrainKeeps(timing, parts) ==
    [timing |-> [timing EXCEPT !.parts = MapMerge(@, parts)], parts |-> parts]

\* parts.drain(): the entries are moved out and the buffer is left empty.
DrainInto(timing, parts) ==
    [timing |-> [timing EXCEPT !.parts = MapMerge(@, parts)], parts |-> EmptyMap]

\* lines 127-132: the [RUSTC-TIMING] branch.
RustcTimingLine(st, line) ==
    LET rest == find_get_after(line, "[RUSTC-TIMING]") IN
    IF ~IsSome(rest) THEN st
    ELSE LET r    == Unwrap(rest)
             time == parse_f64(SubSeq(r, Len(r), Len(r)))
         IN  IF ~IsSome(time) \/ Len(r) < 2
             THEN [st EXCEPT !.panicked = TRUE]
             ELSE [st EXCEPT !.parts =
                       MapAdd(@, SubSeq(r, 1, Len(r) - 1), Unwrap(time))]

\* rest.find(" -- "): the first "--" with a space on both sides.
FindDashes(rest) ==
    FirstIndex({i \in 1..Len(rest) : rest[i] = "--" /\ 1 < i /\ i < Len(rest)})

\* lines 134-146: the [TIMING] branch.
TimingLine(st, line) ==
    LET rest == find_get_after(line, "[TIMING]") IN
    IF ~IsSome(rest) THEN st
    ELSE LET r   == Unwrap(rest)
             pos == FindDashes(r)
         IN  IF ~IsSome(pos) THEN st
             ELSE LET step == SubSeq(r, 1, Unwrap(pos) - 1)
                      dur  == parse_f64(SubSeq(r, Unwrap(pos) + 1, Len(r)))
                  IN  IF ~IsSome(dur) THEN [st EXCEPT !.panicked = TRUE]
                      ELSE LET old == IF step \in DOMAIN st.ret
                                      THEN st.ret[step] ELSE TimingDefault
                               d   == DrainInto([old EXCEPT !.dur = @ + Unwrap(dur)],
                                                st.parts)
                           IN  [st EXCEPT
                                  !.ret   = [s \in (DOMAIN st.ret) \cup {step} |->
                                               IF s = step THEN d.timing ELSE st.ret[s]],
                                  !.parts = d.parts]

\* lines 125-147: the body of the loop for one line.
ExtractLine(st, line) ==
    LET a == RustcTimingLine(st, line) IN
    IF a.panicked THEN a ELSE TimingLine(a, line)

RECURSIVE ExtractFrom(_, _, _)
ExtractFrom(st, contents, i) ==
    IF i > Len(contents) \/ st.panicked THEN st
    ELSE ExtractFrom(ExtractLine(st, contents[i]), contents, i + 1)

\* lines 122-149: the result is st.ret unless st.panicked.
extract_timings(contents) == ExtractFrom(ExtractInit, contents, 1)

(***************************************************************************)
(* extract_cpu_microarch: the first "cpu family" line, then the first      *)
(* "model" line after it, looked up in the static table.                   *)
(***************************************************************************)
INTEL_CPU_MODEL_TO_MICROARCH ==
    << << <<"6">>, <<"45">>, "sandybridge" >>,
       << <<"6">>, <<"62">>, "ivybridge" >>,
       << <<"6">>, <<"63">>, "haswell" >>,
       << <<"6">>, <<"79">>, "broadwell" >>,
       << <<"6">>, <<"85">>, "skylake" >>,
       << <<"6">>, <<"86">>, "broadwell" >> >>

\* A variant of MicroarchOf that looks the family up and not the model.
MicroarchOfFamily(family, model) ==
    LET T == INTEL_CPU_MODEL_TO_MICROARCH
        pos == FirstIndex({i \in 1..Len(T) : T[i][1] = family})
    IN  IF IsSome(pos) THEN Some(T[Unwrap(pos)][3]) ELSE None

\* lines 163-166: .iter().find(|(f, m, _)| ..).map(|(_, _, arch)| arch)
MicroarchOf(family, model) ==
    LET T == INTEL_CPU_MODEL_TO_MICROARCH
        pos == FirstIndex({i \in 1..Len(T) : T[i][1] = family /\ T[i][2] = model})
    IN  IF IsSome(pos) THEN Some(T[Unwrap(pos)][3]) ELSE None

RECURSIVE CpuFrom(_, _, _)
CpuFrom(contents, i, family) ==
    IF i > Len(contents) THEN None
    ELSE IF ~IsSome(family)
         THEN CpuFrom(contents, i + 1, find_get_after(contents[i], "cpu family\t:"))
         ELSE LET model == find_get_after(contents[i], "model\t\t:") IN
              IF IsSome(model) THEN MicroarchOf(Unwrap(family), Unwrap(model))
              ELSE CpuFrom(contents, i + 1, family)

extract_cpu_microarch(contents) == CpuFrom(contents, 1, None)

(***************************************************************************)
(* identify_job: the first line that contains the needle "[CI_JOB_NAME=",  *)
(* and on it the text between the needle and the next "]".  The result is  *)
(* [ok |-> TRUE, name |-> ..] or [ok |-> FALSE] (the format_err!).         *)
(***************************************************************************)
Contains(line, needle) == \E i \in 1..Len(line) : line[i] = needle

\* A variant of UntilBracket that cuts at the last "]" of the line.
UntilLastBracket(text) ==
    LET S == {i \in 1..Len(text) : text[i] = "]"} IN
    IF S = {} THEN text
    ELSE SubSeq(text, 1, (CHOOSE i \in S : \A j \in S : j <= i) - 1)

\* contents.split(']').next().unwrap()
UntilBracket(text) ==
    LET pos == FirstIndex({i \in 1..Len(text) : text[i] = "]"})
    IN  IF IsSome(pos) THEN SubSeq(text, 1, Unwrap(pos) - 1) ELSE text

identify_job(contents) ==
    LET needle == "[CI_JOB_NAME="
        l == FirstIndex({i \in 1..Len(contents) : Contains(contents[i], needle)})
    IN  IF ~IsSome(l) THEN [ok |-> FALSE, name |-> << >>]
        ELSE LET line == contents[Unwrap(l)]
                 pos == Unwrap(FirstIndex({i \in 1..Len(line) : line[i] = needle}))
             IN  [ok |-> TRUE,
                  name |-> UntilBracket(SubSeq(line, pos + 1, Len(line)))]

(***************************************************************************)
(* flate2's gzip, as far as the program depends on it: the encoder writes  *)
(* a header, the text as runs of equal lines, and a trailer with the       *)
(* length of the text; the decoder rebuilds the text and fails on a stream *)
(* that lacks the header or the trailer or whose length does not match.    *)
(***************************************************************************)
RECURSIVE Runs(_)
Runs(text) ==
    IF text = << >> THEN << >>
    ELSE LET r == Runs(Tail(text)) IN
         IF r # << >> /\ r[1].v = Head(text)
         THEN << [kind |-> "run", n |-> r[1].n + 1, v |-> Head(text)] >> \o Tail(r)
         ELSE << [kind |-> "run", n |-> 1, v |-> Head(text)] >> \o r

RECURSIVE Expand(_)
Expand(runs) ==
    IF runs = << >> THEN << >>
    ELSE [i \in 1..runs[1].n |-> runs[1].v] \o Expand(Tail(runs))

GzHeader == [kind |-> "hdr", n |-> 0, v |-> << >>]

GzTrailer(text) == [kind |-> "trl", n |-> Len(text), v |-> << >>]

\* GzEncoder::new(&mut raw, Compression::best()); write_all; finish
GzEncode(text) == << GzHeader >> \o Runs(text) \o << GzTrailer(text) >>

\* GzDecoder::new(&raw[..]).read_to_string(&mut contents)
GzDecode(raw) ==
    IF Len(raw) < 2 \/ raw[1].kind # "hdr" \/ raw[Len(raw)].kind # "trl"
    THEN [ok |-> FALSE, contents |-> << >>]
    ELSE LET text == Expand(SubSeq(raw, 2, Len(raw) - 1)) IN
         IF raw[Len(raw)].n # Len(text)
         THEN [ok |-> FALSE, contents |-> << >>]
         ELSE [ok |-> TRUE, contents |-> text]

(***************************************************************************)
(* The vendors' data.  A vendor's build history is a sequence of commit    *)
(* ids, most recent build first (a commit may have no build, or several);  *)
(* the build at position i has id i.  Every build has two jobs, and the    *)
(* log of a job is fixed by the commit of its build: the logs of the       *)
(* oldest commit's second Travis job carry no job name.                    *)
(***************************************************************************)
Commits == 1..NumCommits

\* git log: newest first (lib.rs lines 34-40).
history == [i \in 1..NumCommits |-> NumCommits + 1 - i]

BuildIds == 1..NumCommits

BuildLists ==
    {l \in UNION {[1..n -> Commits] : n \in 0..NumCommits} :
        \A i \in 1..(Len(l) - 1) : l[i] >= l[i + 1]}

JobsOf(build) == << 2 * build - 1, 2 * build >>

\* What Init draws the two histories from: one of the vendors has built every
\* commit once, the other has any history.
VendorData ==
    {d \in BuildLists \X BuildLists : d[1] = history \/ d[2] = history}

JobIds == UNION {{JobsOf(b)[k] : k \in 1..Len(JobsOf(b))} : b \in BuildIds}

LogSamples ==
    << << <<"[CI_JOB_NAME=", "dist-x86", "]">>,
          <<"cpu family\t:", "6">>,
          <<"model\t\t:", "85">>,
          <<"[RUSTC-TIMING]", "crate_a", "1.5">>,
          <<"[RUSTC-TIMING]", "crate_a", "1.5">>,
          <<"[TIMING]", "build", "--", "4.0">> >>,
       << <<"[CI_JOB_NAME=", "test", "]">>,
          <<"[TIMING]", "build", "--", "2.0">> >>,
       << <<"[CI_JOB_NAME=", "dist-x86", "]">>,
          <<"[TIMING]", "build", "--", "2.0">>,
          <<"[TIMING]", "build", "--", "2.0">> >>,
       << <<"no", "job", "name">> >>,
       << <<"[CI_JOB_NAME=", "test", "]">>,
          <<"[TIMING]", "build", "--", "4.0">>,
          <<"[TIMING]", "test", "--", "oops">> >> >>

\* The logs the second Travis job of the oldest commit may have: a good one,
\* one with the job name of the first job of the build, one without a job
\* name, one with a `[TIMING]` value that is no number.
OldestLogs == {2, 3, 4, 5}

\* The choice matters only when Travis has built the oldest commit.
OldestLogsOf(list) ==
    IF \E i \in 1..Len(list) : list[i] = 1 THEN OldestLogs ELSE {2}

\* The log of the k-th job of a Travis build of commit sha, where oldest is
\* the log of the second job of the oldest commit.
TravisLogText(sha, k, oldest) ==
    IF k = 1 THEN LogSamples[1]
    ELSE IF sha = 1 THEN LogSamples[oldest] ELSE LogSamples[2]

\* The log of the k-th job of an AppVeyor build of commit sha.
AppveyorLogText(sha, k) == IF k = 1 THEN LogSamples[3] ELSE LogSamples[2]

\* The page of at most PageSize builds after the first `after` builds.
Page(list, after) ==
    [i \in 1..(IF Len(list) - after < PageSize
               THEN (IF Len(list) < after THEN 0 ELSE Len(list) - after)
               ELSE PageSize) |->
        [id |-> after + i, sha |-> list[after + i]]]

(***************************************************************************)
(* The cache directory.                                                    *)
(***************************************************************************)
TravisPath(job) == <<"logs/travis", job>>

AppveyorPath(build_id, job) == <<"logs/appveyor", build_id, job>>

Paths ==
    {TravisPath(j) : j \in JobIds}
        \cup UNION {{AppveyorPath(b, JobsOf(b)[k]) : k \in 1..Len(JobsOf(b))} :
                       b \in BuildIds}

Absent == [exists |-> FALSE, raw |-> << >>]

File(raw) == [exists |-> TRUE, raw |-> raw]

\* What a failed fs::write may leave behind: nothing, or the file with only
\* the first bytes written.
Torn(raw) == {Absent} \cup {File(SubSeq(raw, 1, n)) : n \in 0..(Len(raw) - 1)}


(***************************************************************************)
(* The state.                                                              *)
(*   s3, mirror      the remote store that the gate probes: the set s3, or *)
(*                   (mirror) the records of the cache directory, which is *)
(*                   then read as being the published store                *)
(*   travisList, appveyorList   the vendors' build histories               *)
(*   oldestLog       which log the second Travis job of the oldest commit  *)
(*                   has (an index of LogSamples)                          *)
(*   pc, idx         where Context::run is, and the index in history of    *)
(*                   the commit in hand                                    *)
(*   travis, appveyor, travis_offset, appveyor_start_id   Context          *)
(*   workers         the parallel get_*_log calls of the build in hand;    *)
(*                   hit records that get_log took the cache-hit path      *)
(*   logs            the Vec<Log> of Context::logs                         *)
(*   logFile, recordFile   the cache directory: logs/.. and commits/..     *)
(*   runs, faults    runs started, failures of the environment so far      *)
(*   requests, probed, processed, prev, stored    what happened, for the   *)
(*                   properties: vendor requests of this run, commits      *)
(*                   probed and commits handed to cache_commit in this     *)
(*                   run, the cache as the last run found it and whether   *)
(*                   the run before it ended with Ok, and the text each    *)
(*                   completed miss of get_log fetched                     *)
(*   et_contents, et_i, et_st   extract_timings run line by line           *)
(*   call_log, call_job, call_cpu   a log, and what identify_job and       *)
(*                   extract_cpu_microarch returned for it (None before    *)
(*                   the call)                                             *)
(*   bs_pc, bs_log, bs_taken, bs_commits, overall   build-site: where it   *)
(*                   is, the git log it reads (newest first), the commits  *)
(*                   get_commits has taken from it, the Vec of commits and *)
(*                   records it returned, and overall.json (None until it  *)
(*                   is written)                                           *)
(***************************************************************************)
VARIABLES s3, mirror, travisList, appveyorList, oldestLog, pc, idx,
          travis, appveyor, travis_offset, appveyor_start_id,
          workers, logs, logFile, recordFile, runs, faults,
          requests, probed, processed, prev, stored,
          et_contents, et_i, et_st,
          call_log, call_job, call_cpu,
          bs_pc, bs_log, bs_taken, bs_commits, overall

vars == << s3, mirror, travisList, appveyorList, oldestLog, pc, idx,
           travis, appveyor, travis_offset, appveyor_start_id,
           workers, logs, logFile, recordFile, runs, faults,
           requests, probed, processed, prev, stored,
           et_contents, et_i, et_st,
           call_log, call_job, call_cpu,
           bs_pc, bs_log, bs_taken, bs_commits, overall >>

vendorVars == << s3, mirror, travisList, appveyorList, oldestLog >>

contextVars == << travis, appveyor, travis_offset, appveyor_start_id >>

etVars == << et_contents, et_i, et_st >>

callVars == << call_log, call_job, call_cpu >>

siteVars == << bs_pc, bs_log, bs_taken, bs_commits, overall >>

commit == history[idx]

Bump(n) == IF n < MaxRequests THEN n + 1 ELSE n

\* A variant of MapPut that leaves the value of a key the map already has.
MapPutKeepsFirst(m, k, v) ==
    [x \in (DOMAIN m) \cup {k} |-> IF x \in DOMAIN m THEN m[x] ELSE v]

MapPut(m, k, v) == [x \in (DOMAIN m) \cup {k} |-> IF x = k THEN v ELSE m[x]]

\* A variant of exists_on_s3 that asks for a key the store never holds.
exists_on_s3_wrong_key(sha) == FALSE

\* lines 80-85: a HEAD request for /commits/<sha>.json.gz
exists_on_s3(sha) == IF mirror THEN recordFile[sha].exists ELSE sha \in s3

\* A variant of dst_exists that looks for the record under another name.
dst_exists_wrong_name(sha) == FALSE

\* A variant of dst_exists that takes every commit for one already built.
dst_exists_always(sha) == TRUE

\* line 91: dst.exists()
dst_exists(sha) == recordFile[sha].exists

\* A variant of cache_exists that never finds the file.
cache_exists_never(path) == FALSE

\* line 274: cache.exists()
cache_exists(path) == logFile[path].exists

\* for build in response.builds { map.insert(sha, build) }
RECURSIVE InsertBuilds(_, _)
InsertBuilds(map, builds) ==
    IF builds = << >> THEN map
    ELSE InsertBuilds(MapPut(map, Head(builds).sha, Head(builds).id), Tail(builds))

\* The lines and the logs extract_timings is run on by SpecTimings.
TimingLines ==
    { <<"[RUSTC-TIMING]", "crate_a", "1.5">>,
      <<"[RUSTC-TIMING]", "crate", "b", "2.0">>,
      <<"[TIMING]", "build", "--", "4.0">>,
      <<"[TIMING]", "test", "--", "2.0">>,
      <<"[TIMING]", "build", "4.0">>,
      <<"[RUSTC-TIMING]", "crate_a", "oops">>,
      <<"compiling">> }

TimingLogs == UNION {[1..n -> TimingLines] : n \in 0..MaxLines}

InitPipeline ==
    /\ pc = "idle"
    /\ idx = 0
    /\ travis = EmptyMap
    /\ appveyor = EmptyMap
    /\ travis_offset = 0
    /\ appveyor_start_id = None
    /\ workers = << >>
    /\ logs = << >>
    /\ logFile = [p \in Paths |-> Absent]
    /\ recordFile = [c \in Commits |-> Absent]
    /\ runs = 0
    /\ faults = 0
    /\ requests = 0
    /\ probed = << >>
    /\ processed = << >>
    /\ prev = [ok |-> FALSE, logFile |-> [p \in Paths |-> Absent],
               recordFile |-> [c \in Commits |-> Absent]]
    /\ stored = [p \in Paths |-> None]

InitExtract ==
    /\ et_contents = << >>
    /\ et_i = 1
    /\ et_st = ExtractInit

InitCalls ==
    /\ call_log = << >>
    /\ call_job = None
    /\ call_cpu = None

\* build-site has not been started.
InitNoSite ==
    /\ bs_pc = "off"
    /\ bs_log = << >>
    /\ bs_taken = << >>
    /\ bs_commits = << >>
    /\ overall = None

Init ==
    /\ s3 \in SUBSET Commits
    /\ mirror = FALSE
    /\ \E d \in VendorData : travisList = d[1] /\ appveyorList = d[2]
    /\ oldestLog \in OldestLogsOf(travisList)
    /\ InitPipeline
    /\ InitExtract
    /\ InitCalls
    /\ InitNoSite

InitMirror ==
    /\ s3 = {}
    /\ mirror = TRUE
    /\ \E d \in VendorData : travisList = d[1] /\ appveyorList = d[2]
    /\ oldestLog \in OldestLogsOf(travisList)
    /\ InitPipeline
    /\ InitExtract
    /\ InitCalls
    /\ InitNoSite

InitTimings ==
    /\ s3 = {}
    /\ mirror = FALSE
    /\ travisList = << >>
    /\ appveyorList = << >>
    /\ oldestLog = 2
    /\ InitPipeline
    /\ et_contents \in TimingLogs
    /\ et_i = 1
    /\ et_st = ExtractInit
    /\ InitCalls
    /\ InitNoSite

\* The lines and the logs identify_job and extract_cpu_microarch are called
\* on by SpecLogs.
JobLines ==
    { <<"[CI_JOB_NAME=", "dist-x86", "]">>,
      <<"echo", "[CI_JOB_NAME=", "test", "]", "done", "]">>,
      <<"[CI_JOB_NAME=", "Job12", "]">>,
      <<"[CI_JOB_NAME=", "no", "bracket">>,
      <<"export", "CI_JOB_NAME=", "shell", "]">>,
      <<"AGENT_JOBNAME=", "Linux", "dist-arm">>,
      <<"cpu family\t:", "6">>,
      <<"cpu family\t:", "15">>,
      <<"model\t\t:", "85">>,
      <<"model\t\t:", "99">>,
      <<"model name\t:", "Xeon">> }

JobLogs == UNION {[1..n -> JobLines] : n \in 0..MaxLogLines}

InitLogs ==
    /\ s3 = {}
    /\ mirror = FALSE
    /\ travisList = << >>
    /\ appveyorList = << >>
    /\ oldestLog = 2
    /\ InitPipeline
    /\ InitExtract
    /\ call_log \in JobLogs
    /\ call_job = None
    /\ call_cpu = None
    /\ InitNoSite

(***************************************************************************)
(* main and Context::run.                                                  *)
(***************************************************************************)
\* main, lines 49-56, and line 70: a fresh Context, and git log is spawned.
\* A process that hangs (pc = "hang") is one the operator ends from outside.
RunStart ==
    /\ pc \in {"idle", "done", "error", "panic", "hang"}
    /\ runs < MaxRuns
    /\ runs' = runs + 1
    /\ prev' = [ok |-> pc = "done", logFile |-> logFile, recordFile |-> recordFile]
    /\ travis' = EmptyMap
    /\ appveyor' = EmptyMap
    /\ travis_offset' = 0
    /\ appveyor_start_id' = None
    /\ idx' = 0
    /\ workers' = << >>
    /\ logs' = << >>
    /\ requests' = 0
    /\ probed' = << >>
    /\ processed' = << >>
    /\ \/ /\ pc' = "iter"
          /\ UNCHANGED faults
       \/ /\ faults < MaxFaults
          /\ faults' = faults + 1
          /\ pc' = "error"
    /\ UNCHANGED << vendorVars, logFile, recordFile, stored, etVars, callVars, siteVars >>

\* lines 70-75: the next commit of the history, and the probe of the gate.
\* get_git_commits (lib.rs lines 43-55) is repeat(()).filter_map(..): at the
\* end of git's output read_line gives Ok(0) and the closure None, which
\* filter_map skips, so next() reads again and never returns.
RunIter ==
    /\ pc = "iter"
    /\ \/ /\ idx = Len(history)
          /\ pc' = "hang"
          /\ UNCHANGED << idx, probed, processed, faults >>
       \/ /\ idx < Len(history)
          /\ faults < MaxFaults
          /\ faults' = faults + 1
          /\ pc' = "error"
          /\ UNCHANGED << idx, probed, processed >>
       \/ /\ idx < Len(history)
          /\ idx' = idx + 1
          /\ probed' = Append(probed, history[idx + 1])
          /\ IF exists_on_s3(history[idx + 1])
             THEN pc' = "done" /\ UNCHANGED processed
             ELSE pc' = "cache_commit"
                  /\ processed' = Append(processed, history[idx + 1])
          /\ UNCHANGED faults
    /\ UNCHANGED << vendorVars, contextVars, workers, logs, logFile, recordFile,
                    runs, requests, prev, stored, etVars, callVars, siteVars >>

\* lines 88-93: cache_commit returns at once when the record is in the cache.
CacheCommitBegin ==
    /\ pc = "cache_commit"
    /\ pc' = IF dst_exists(commit) THEN "iter" ELSE "lookup"
    /\ logs' = << >>
    /\ UNCHANGED << vendorVars, idx, contextVars, workers, logFile, recordFile,
                    runs, faults, requests, probed, processed, prev, stored, etVars, callVars, siteVars >>

(***************************************************************************)
(* Context::logs: the two lookup loops.                                    *)
(***************************************************************************)
\* lines 188-190 and 292-305: one round of the Travis loop.
load_more_travis ==
    /\ pc = "lookup"
    /\ commit \notin DOMAIN travis
    /\ requests' = Bump(requests)
    /\ \/ /\ faults < MaxFaults
          /\ faults' = faults + 1
          /\ pc' = "error"
          /\ UNCHANGED << travis, travis_offset >>
       \/ LET builds == Page(travisList, travis_offset) IN
          /\ travis_offset' = travis_offset + Len(builds)
          /\ travis' = InsertBuilds(travis, builds)
          /\ UNCHANGED << pc, faults >>
    /\ UNCHANGED << vendorVars, idx, appveyor, appveyor_start_id, workers, logs,
                    logFile, recordFile, runs, probed, processed, prev, stored,
                    etVars, callVars, siteVars >>

\* lines 191-193 and 307-321: one round of the AppVeyor loop.  The page is
\* the one after the build startBuildId; last().unwrap() panics on an empty
\* page.
load_more_appveyor ==
    /\ pc = "lookup"
    /\ commit \in DOMAIN travis
    /\ commit \notin DOMAIN appveyor
    /\ requests' = Bump(requests)
    /\ \/ /\ faults < MaxFaults
          /\ faults' = faults + 1
          /\ pc' = "error"
          /\ appveyor_start_id' = None
          /\ UNCHANGED appveyor
       \/ LET after  == IF IsSome(appveyor_start_id)
                        THEN Unwrap(appveyor_start_id) ELSE 0
              builds == Page(appveyorList, after)
          IN  IF builds = << >>
              THEN /\ pc' = "panic"
                   /\ appveyor_start_id' = None
                   /\ UNCHANGED << appveyor, faults >>
              ELSE /\ appveyor_start_id' = Some(builds[Len(builds)].id)
                   /\ appveyor' = InsertBuilds(appveyor, builds)
                   /\ UNCHANGED << pc, faults >>
    /\ UNCHANGED << vendorVars, idx, travis, travis_offset, workers, logs,
                    logFile, recordFile, runs, probed, processed, prev, stored,
                    etVars, callVars, siteVars >>


(***************************************************************************)
(* appveyor_logs and travis_logs: the job list of the build, one parallel  *)
(* worker per job (par_iter), and the collection of the results in the     *)
(* order of the jobs.                                                      *)
(***************************************************************************)
Worker(path, url, text) ==
    [path |-> path, job_url |-> url, text |-> text, st |-> "start",
     hit |-> FALSE, contents |-> << >>]

\* lines 251-267, up to the call of get_log
AppveyorWorkers(build_id) ==
    [k \in 1..Len(JobsOf(build_id)) |->
        Worker(AppveyorPath(build_id, JobsOf(build_id)[k]),
               <<"ci.appveyor.com/builds", build_id, JobsOf(build_id)[k]>>,
               AppveyorLogText(appveyorList[build_id], k))]

\* lines 218-230, up to the call of get_log
TravisWorkers(build_id) ==
    [k \in 1..Len(JobsOf(build_id)) |->
        Worker(TravisPath(JobsOf(build_id)[k]),
               <<"travis-ci.com/jobs", JobsOf(build_id)[k]>>,
               TravisLogText(travisList[build_id], k, oldestLog))]

\* lines 232-244: the request for the build's jobs, and the fan-out.
AppveyorLogsStart ==
    /\ pc = "lookup"
    /\ commit \in DOMAIN travis
    /\ commit \in DOMAIN appveyor
    /\ requests' = Bump(requests)
    /\ \/ /\ faults < MaxFaults
          /\ faults' = faults + 1
          /\ pc' = "error"
          /\ UNCHANGED workers
       \/ /\ workers' = AppveyorWorkers(appveyor[commit])
          /\ pc' = "appveyor_logs"
          /\ UNCHANGED faults
    /\ UNCHANGED << vendorVars, idx, contextVars, logs, logFile, recordFile,
                    runs, probed, processed, prev, stored, etVars, callVars, siteVars >>

\* lines 202-211: the same for Travis.
TravisLogsStart ==
    /\ pc = "travis_logs_start"
    /\ requests' = Bump(requests)
    /\ \/ /\ faults < MaxFaults
          /\ faults' = faults + 1
          /\ pc' = "error"
          /\ UNCHANGED workers
       \/ /\ workers' = TravisWorkers(travis[commit])
          /\ pc' = "travis_logs"
          /\ UNCHANGED faults
    /\ UNCHANGED << vendorVars, idx, contextVars, logs, logFile, recordFile,
                    runs, probed, processed, prev, stored, etVars, callVars, siteVars >>

(***************************************************************************)
(* get_log, run by a worker.                                               *)
(***************************************************************************)
\* lines 275-278: the result of the hit path on the bytes of the file.
ReadCached(raw) ==
    LET d == GzDecode(raw) IN
    IF d.ok THEN [st |-> "ok", contents |-> d.contents]
    ELSE [st |-> "err", contents |-> << >>]

\* A variant of Compressed that writes a repeated line once.
CompressedOnce(log) ==
    << GzHeader >>
        \o [i \in 1..Len(Runs(log)) |-> [Runs(log)[i] EXCEPT !.n = 1]]
        \o << GzTrailer(log) >>

\* lines 282-285: the bytes the miss path writes for the fetched log.
Compressed(log) == GzEncode(log)

\* lines 274-278: the cache file exists.
GetLogHit(w) ==
    /\ pc \in {"appveyor_logs", "travis_logs"}
    /\ workers[w].st = "start"
    /\ cache_exists(workers[w].path)
    /\ \/ /\ faults < MaxFaults
          /\ faults' = faults + 1
          /\ workers' = [workers EXCEPT ![w].st = "err", ![w].hit = TRUE]
       \/ LET r == ReadCached(logFile[workers[w].path].raw) IN
          /\ workers' = [workers EXCEPT ![w].st = r.st, ![w].hit = TRUE,
                                        ![w].contents = r.contents]
          /\ UNCHANGED faults
    /\ UNCHANGED << vendorVars, pc, idx, contextVars, logs, logFile, recordFile,
                    runs, requests, probed, processed, prev, stored, etVars, callVars, siteVars >>

\* line 280: the cache file does not exist, the closure fetches the log.
GetLogFetch(w) ==
    /\ pc \in {"appveyor_logs", "travis_logs"}
    /\ workers[w].st = "start"
    /\ ~cache_exists(workers[w].path)
    /\ requests' = Bump(requests)
    /\ \/ /\ faults < MaxFaults
          /\ faults' = faults + 1
          /\ workers' = [workers EXCEPT ![w].st = "err"]
       \/ /\ workers' = [workers EXCEPT ![w].st = "fetched",
                                        ![w].contents = workers[w].text]
          /\ UNCHANGED faults
    /\ UNCHANGED << vendorVars, pc, idx, contextVars, logs, logFile, recordFile,
                    runs, probed, processed, prev, stored, etVars, callVars, siteVars >>

\* lines 281-288: the fetched log is compressed and written to the cache
\* path with fs::write; a failure leaves no file or a torn one.
GetLogStore(w) ==
    /\ pc \in {"appveyor_logs", "travis_logs"}
    /\ workers[w].st = "fetched"
    /\ LET path == workers[w].path
           raw  == Compressed(workers[w].contents)
       IN  \/ /\ faults < MaxFaults
              /\ faults' = faults + 1
              /\ \E f \in Torn(raw) : logFile' = [logFile EXCEPT ![path] = f]
              /\ workers' = [workers EXCEPT ![w].st = "err"]
              /\ UNCHANGED stored
           \/ /\ logFile' = [logFile EXCEPT ![path] = File(raw)]
              /\ workers' = [workers EXCEPT ![w].st = "ok"]
              /\ stored' = [stored EXCEPT ![path] = Some(workers[w].contents)]
              /\ UNCHANGED faults
    /\ UNCHANGED << vendorVars, pc, idx, contextVars, logs, recordFile,
                    runs, requests, probed, processed, prev, etVars, callVars, siteVars >>

\* A variant of AllDone that is satisfied with the first result.
FirstDone == \E w \in 1..Len(workers) : workers[w].st \in {"ok", "err"}

AllDone == \A w \in 1..Len(workers) : workers[w].st \in {"ok", "err"}

AnyErr == \E w \in 1..Len(workers) : workers[w].st = "err"

Collected ==
    [w \in 1..Len(workers) |->
        [job_url |-> workers[w].job_url, contents |-> workers[w].contents,
         path |-> workers[w].path]]

\* lines 245-248 and 212-215: every worker has returned (collect), and the
\* results are pushed in the order of the jobs; the first Err is returned.
LogsJoin ==
    /\ pc \in {"appveyor_logs", "travis_logs"}
    /\ AllDone
    /\ workers' = << >>
    /\ IF AnyErr
       THEN pc' = "error" /\ UNCHANGED logs
       ELSE /\ logs' = logs \o Collected
            /\ pc' = IF pc = "appveyor_logs" THEN "travis_logs_start" ELSE "assemble"
    /\ UNCHANGED << vendorVars, idx, contextVars, logFile, recordFile, runs,
                    faults, requests, probed, processed, prev, stored, etVars, callVars, siteVars >>

(***************************************************************************)
(* cache_commit, lines 95-119: the record is assembled and written.        *)
(***************************************************************************)
\* lines 99-112: Ok with the jobs, Err (identify_job), or a panic (an
\* unwrap() in extract_timings).
RECURSIVE Assemble(_, _, _)
Assemble(ls, i, jobs) ==
    IF i > Len(ls) THEN [st |-> "ok", jobs |-> jobs]
    ELSE LET job == identify_job(ls[i].contents)
             t   == extract_timings(ls[i].contents)
         IN  IF ~job.ok THEN [st |-> "err", jobs |-> jobs]
             ELSE IF t.panicked THEN [st |-> "panic", jobs |-> jobs]
             ELSE Assemble(ls, i + 1,
                    MapPut(jobs, job.name,
                           [url |-> ls[i].job_url, path |-> ls[i].path,
                            cpu_microarch |-> extract_cpu_microarch(ls[i].contents),
                            timings |-> t.ret]))

\* lines 113-117: serde_json::to_string, then gzip.
RecordBytes(jobs) == GzEncode(<< << [jobs |-> jobs] >> >>)

CacheCommitFinish ==
    /\ pc = "assemble"
    /\ LET meta == Assemble(logs, 1, EmptyMap) IN
       \/ /\ meta.st = "ok"
          /\ recordFile' = [recordFile EXCEPT ![commit] = File(RecordBytes(meta.jobs))]
          /\ pc' = "iter"
          /\ UNCHANGED faults
       \/ /\ meta.st = "err"
          /\ pc' = "error"
          /\ UNCHANGED << recordFile, faults >>
       \/ /\ meta.st = "panic"
          /\ pc' = "panic"
          /\ UNCHANGED << recordFile, faults >>
       \/ /\ faults < MaxFaults
          /\ faults' = faults + 1
          /\ pc' = "error"
          /\ IF meta.st = "ok"
             THEN \E f \in Torn(RecordBytes(meta.jobs)) :
                     recordFile' = [recordFile EXCEPT ![commit] = f]
             ELSE UNCHANGED recordFile
    /\ UNCHANGED << vendorVars, idx, contextVars, workers, logs, logFile, runs,
                    requests, probed, processed, prev, stored, etVars, callVars, siteVars >>

(***************************************************************************)
(* extract_timings run line by line on a log of its own, so that the       *)
(* pending buffer can be looked at between the lines.                      *)
(***************************************************************************)
\* The logs a further call is made on: the ends of the log of the last one.
Suffixes(contents) ==
    {SubSeq(contents, k, Len(contents)) : k \in 1..(Len(contents) + 1)}

\* lines 123-124: a new call starts with an empty ret and an empty buffer.
ExtractStart ==
    /\ et_i > Len(et_contents) \/ et_st.panicked
    /\ et_contents' \in Suffixes(et_contents)
    /\ et_i' = 1
    /\ et_st' = ExtractInit
    /\ UNCHANGED << vendorVars, pc, idx, contextVars, workers, logs, logFile,
                    recordFile, runs, faults, requests, probed, processed, prev,
                    stored, callVars, siteVars >>

\* lines 125-147: one round of the loop.
ExtractStep ==
    /\ et_i <= Len(et_contents)
    /\ ~et_st.panicked
    /\ et_st' = ExtractLine(et_st, et_contents[et_i])
    /\ et_i' = et_i + 1
    /\ UNCHANGED << vendorVars, pc, idx, contextVars, workers, logs, logFile,
                    recordFile, runs, faults, requests, probed, processed, prev,
                    stored, et_contents, callVars, siteVars >>

(***************************************************************************)
(* build-site (src/bin/build-site.rs): get_commits takes the newest        *)
(* commits of the git log and reads their records from the cache           *)
(* directory, downloading the missing ones; write_overall writes           *)
(* overall.json.  A commit is its sha (the date goes wherever the sha      *)
(* goes); write_each_commit is not modelled.                               *)
(***************************************************************************)
\* lines 58-67, one commit: count += 1 and total += every timing.dur of the
\* job, for each job of the commit.
AddCommit(jobs, cj) ==
    [n \in (DOMAIN jobs) \cup (DOMAIN cj) |->
        LET old == IF n \in DOMAIN jobs THEN jobs[n] ELSE [count |-> 0, total |-> 0]
        IN  IF n \in DOMAIN cj
            THEN [count |-> old.count + 1,
                  total |-> old.total
                              + SumOver(DOMAIN cj[n].timings,
                                        [t \in DOMAIN cj[n].timings |->
                                            cj[n].timings[t].dur])]
            ELSE old]

\* lines 58-67: for (_sha, commit) in commits.iter()
RECURSIVE FoldJobs(_, _, _)
FoldJobs(commits, i, jobs) ==
    IF i > Len(commits) THEN jobs
    ELSE FoldJobs(commits, i + 1, AddCommit(jobs, commits[i].jobs))

\* The order of String keys in a BTreeMap, for the job names of the model.
JobNameOrder == << <<"a">>, <<"b">>, <<"c">> >>

\* line 69: jobs.keys().cloned().collect()
RECURSIVE KeysFrom(_, _)
KeysFrom(jobs, i) ==
    IF i > Len(JobNameOrder) THEN << >>
    ELSE (IF JobNameOrder[i] \in DOMAIN jobs THEN << JobNameOrder[i] >> ELSE << >>)
            \o KeysFrom(jobs, i + 1)

\* lines 71-72: (-total / (count as f64)) as i64.  total is in tenths; the
\* cast drops the fraction of the mean.
SortKey(jobs, name) == 0 - (jobs[name].total \div (10 * jobs[name].count))

\* sort_by_key is stable: a name goes behind every name whose key is not
\* greater.
RECURSIVE InsertByKey(_, _, _)
InsertByKey(sorted, name, jobs) ==
    IF sorted = << >> THEN << name >>
    ELSE IF SortKey(jobs, Head(sorted)) <= SortKey(jobs, name)
         THEN << Head(sorted) >> \o InsertByKey(Tail(sorted), name, jobs)
         ELSE << name >> \o sorted

\* line 70: slowest_jobs.sort_by_key(..)
RECURSIVE SortByKey(_, _, _)
SortByKey(names, sorted, jobs) ==
    IF names = << >> THEN sorted
    ELSE SortByKey(Tail(names), InsertByKey(sorted, Head(names), jobs), jobs)

\* A variant of Reverse that leaves the order as it is.
NotReversed(seq) == seq

\* lines 118-121: Vec::reverse
Reverse(seq) == [i \in 1..Len(seq) |-> seq[Len(seq) + 1 - i]]

\* lines 97-108: the value of a job's series for one commit.
SeriesValue(cj, job) ==
    IF job \in DOMAIN cj
    THEN SumOver((DOMAIN cj[job].timings) \ {<<"Distcheck">>},
                 [t \in (DOMAIN cj[job].timings) \ {<<"Distcheck">>} |->
                     cj[job].timings[t].dur])
    ELSE 0

\* lines 57-122: the document that is serialized to overall.json.
write_overall(commits) ==
    LET jobs    == FoldJobs(commits, 1, EmptyMap)
        slowest == SortByKey(KeysFrom(jobs, 1), << >>, jobs)
    IN  [commits |-> Reverse([i \in 1..Len(commits) |-> commits[i].sha]),
         series  |-> [k \in 1..Len(slowest) |->
                        [name |-> slowest[k],
                         data |-> Reverse([i \in 1..Len(commits) |->
                                     SeriesValue(commits[i].jobs, slowest[k])])]]]

\* The records build-site finds: the jobs of a commit with their timings.
SiteJob(timings) ==
    [url |-> <<"url">>, path |-> <<"path">>, cpu_microarch |-> None,
     timings |-> timings]

Dur(d) == [dur |-> d, parts |-> EmptyMap]

SiteRecords ==
    { (<<"a">> :> SiteJob(<<"build">> :> Dur(20)))
         @@ (<<"b">> :> SiteJob((<<"build">> :> Dur(15))
                                  @@ (<<"Distcheck">> :> Dur(40)))),
      (<<"a">> :> SiteJob(<<"build">> :> Dur(40))),
      (<<"a">> :> SiteJob(<<"build">> :> Dur(20)))
         @@ (<<"b">> :> SiteJob(<<"build">> :> Dur(25))),
      (<<"b">> :> SiteJob(<<"build">> :> Dur(20)))
         @@ (<<"c">> :> SiteJob(EmptyMap)),
      EmptyMap }

\* A record file of the cache directory: none, one cut short, or one of the
\* records.
SiteFiles ==
    {Absent, File(<< GzHeader >>)} \cup {File(RecordBytes(j)) : j \in SiteRecords}

\* The git logs build-site is run on: the oldest commits of history.
SiteLogs == {SubSeq(history, k, NumCommits) : k \in 1..(NumCommits + 1)}

InitSite ==
    /\ s3 \in {{}, Commits}
    /\ mirror = FALSE
    /\ travisList = << >>
    /\ appveyorList = << >>
    /\ oldestLog = 2
    /\ pc = "idle"
    /\ idx = 0
    /\ travis = EmptyMap
    /\ appveyor = EmptyMap
    /\ travis_offset = 0
    /\ appveyor_start_id = None
    /\ workers = << >>
    /\ logs = << >>
    /\ logFile = [p \in Paths |-> Absent]
    /\ bs_log \in SiteLogs
    /\ recordFile \in [Commits -> SiteFiles]
    /\ \A c \in Commits :
          (\A i \in 1..Len(bs_log) : bs_log[i] # c) => recordFile[c] = Absent
    /\ runs = 0
    /\ faults = 0
    /\ requests = 0
    /\ probed = << >>
    /\ processed = << >>
    /\ prev = [ok |-> FALSE, logFile |-> [p \in Paths |-> Absent],
               recordFile |-> [c \in Commits |-> Absent]]
    /\ stored = [p \in Paths |-> None]
    /\ InitExtract
    /\ InitCalls
    /\ bs_pc = "take"
    /\ bs_taken = << >>
    /\ bs_commits = << >>
    /\ overall = None

\* lines 137-139: get_git_commits(rust)?.take(100).collect(): take ends the
\* iteration after TakeLimit commits; before that it asks the iterator of
\* lib.rs lines 43-55 for the next one, which at the end of git's output
\* never returns.
GetCommitsTake ==
    /\ bs_pc = "take"
    /\ IF Len(bs_taken) = TakeLimit
       THEN bs_pc' = "download" /\ UNCHANGED bs_taken
       ELSE IF Len(bs_taken) < Len(bs_log)
            THEN /\ bs_taken' = Append(bs_taken, bs_log[Len(bs_taken) + 1])
                 /\ UNCHANGED bs_pc
            ELSE bs_pc' = "hang" /\ UNCHANGED bs_taken
    /\ UNCHANGED << vendorVars, pc, idx, contextVars, workers, logs, logFile,
                    recordFile, runs, faults, requests, probed, processed, prev,
                    stored, etVars, callVars, bs_log, bs_commits, overall >>

\* lines 141-168: the records that are not in the cache directory are
\* downloaded with curl -f; assert!(status.success()) panics when one of
\* them is not in the store.
GetCommitsDownload ==
    /\ bs_pc = "download"
    /\ LET missing == {bs_taken[i] : i \in 1..Len(bs_taken)}
                         \ {c \in Commits : recordFile[c].exists}
       IN  IF missing \subseteq s3
           THEN /\ bs_pc' = "read"
                /\ \E got \in [missing -> {File(RecordBytes(j)) : j \in SiteRecords}] :
                      recordFile' = [c \in Commits |->
                                        IF c \in missing THEN got[c] ELSE recordFile[c]]
           ELSE bs_pc' = "panic" /\ UNCHANGED recordFile
    /\ UNCHANGED << vendorVars, pc, idx, contextVars, workers, logs, logFile,
                    runs, faults, requests, probed, processed, prev,
                    stored, etVars, callVars, bs_log, bs_taken, bs_commits, overall >>

\* lines 173-176: fs::read, GzDecoder and serde_json::from_str of one record.
ReadRecord(file) ==
    LET d == GzDecode(file.raw) IN
    IF d.ok /\ Len(d.contents) = 1 /\ Len(d.contents[1]) = 1
    THEN [ok |-> TRUE, jobs |-> d.contents[1][1].jobs]
    ELSE [ok |-> FALSE, jobs |-> EmptyMap]

\* lines 170-179: every record is read, in the order of the commits; the
\* first that cannot be read ends get_commits with its error.
GetCommitsRead ==
    /\ bs_pc = "read"
    /\ IF \A i \in 1..Len(bs_taken) : ReadRecord(recordFile[bs_taken[i]]).ok
       THEN /\ bs_commits' = [i \in 1..Len(bs_taken) |->
                                [sha |-> bs_taken[i],
                                 jobs |-> ReadRecord(recordFile[bs_taken[i]]).jobs]]
            /\ bs_pc' = "write"
       ELSE bs_pc' = "error" /\ UNCHANGED bs_commits
    /\ UNCHANGED << vendorVars, pc, idx, contextVars, workers, logs, logFile,
                    recordFile, runs, faults, requests, probed, processed, prev,
                    stored, etVars, callVars, bs_log, bs_taken, overall >>

\* lines 52 and 57-125: write_overall; fs::write may fail.
WriteOverall ==
    /\ bs_pc = "write"
    /\ \/ /\ overall' = Some(write_overall(bs_commits))
          /\ bs_pc' = "done"
          /\ UNCHANGED faults
       \/ /\ faults < MaxFaults
          /\ faults' = faults + 1
          /\ bs_pc' = "error"
          /\ UNCHANGED overall
    /\ UNCHANGED << vendorVars, pc, idx, contextVars, workers, logs, logFile,
                    recordFile, runs, requests, probed, processed, prev,
                    stored, etVars, callVars, bs_log, bs_taken, bs_commits >>

\* line 101: identify_job(log) on the log in hand.
IdentifyJobCall ==
    /\ call_job = None
    /\ call_job' = Some(identify_job(call_log))
    /\ UNCHANGED << vendorVars, pc, idx, contextVars, workers, logs, logFile,
                    recordFile, runs, faults, requests, probed, processed, prev,
                    stored, etVars, call_log, call_cpu, siteVars >>

\* line 108: extract_cpu_microarch(&log.contents) on the log in hand.
ExtractCpuCall ==
    /\ call_cpu = None
    /\ call_cpu' = Some(extract_cpu_microarch(call_log))
    /\ UNCHANGED << vendorVars, pc, idx, contextVars, workers, logs, logFile,
                    recordFile, runs, faults, requests, probed, processed, prev,
                    stored, etVars, call_log, call_job, siteVars >>

Next ==
    \/ RunStart
    \/ RunIter
    \/ CacheCommitBegin
    \/ load_more_travis
    \/ load_more_appveyor
    \/ AppveyorLogsStart
    \/ TravisLogsStart
    \/ \E w \in 1..Len(workers) : GetLogHit(w)
    \/ \E w \in 1..Len(workers) : GetLogFetch(w)
    \/ \E w \in 1..Len(workers) : GetLogStore(w)
    \/ LogsJoin
    \/ CacheCommitFinish

NextTimings == ExtractStart \/ ExtractStep

NextLogs == IdentifyJobCall \/ ExtractCpuCall

NextSite == GetCommitsTake \/ GetCommitsDownload \/ GetCommitsRead \/ WriteOverall

\* The publisher, the gate probing an arbitrary remote store.
Spec == Init /\ [][Next]_vars

\* The publisher, the gate probing the records of the cache directory.
SpecMirror == InitMirror /\ [][Next]_vars

\* The timing extractor on every log of at most MaxLines lines.
SpecTimings == InitTimings /\ [][NextTimings]_vars

\* identify_job and extract_cpu_microarch on every log of at most
\* MaxLogLines lines.
SpecLogs == InitLogs /\ [][NextLogs]_vars

\* build-site on every git log and every cache directory of the bounds.
SpecSite == InitSite /\ [][NextSite]_vars


(***************************************************************************)
(* Properties.                                                             *)
(***************************************************************************)
Min(a, b) == IF a < b THEN a ELSE b

\* The position in history of the newest commit the remote store holds, or
\* one past the end of history.
FirstRemote ==
    IF \E i \in 1..Len(history) : history[i] \in s3
    THEN CHOOSE i \in 1..Len(history) :
            history[i] \in s3 /\ \A j \in 1..(i - 1) : history[j] \notin s3
    ELSE Len(history) + 1

\* C1: a run probes the commits in history order and stops at the first one
\* that exists remotely: the commits probed are a prefix of the history that
\* ends no later than that commit, the commits handed to cache_commit are
\* the commits strictly newer than it, in order, and a run that ends with Ok
\* has probed up to that commit and processed every commit newer than it.
C1_GateStopsWalk ==
    /\ probed = SubSeq(history, 1, Len(probed))
    /\ Len(probed) <= Min(FirstRemote, Len(history))
    /\ processed = SubSeq(history, 1, Len(processed))
    /\ Len(processed) < FirstRemote
    /\ Len(probed) - Len(processed) \in {0, 1}
    /\ pc = "done" =>
          /\ Len(probed) = Min(FirstRemote, Len(history))
          /\ Len(processed) = FirstRemote - 1

\* A run has ended with Ok at a commit that exists remotely, after it built
\* a newer commit and with an older commit left unprobed.
C1_Witness ==
    /\ pc = "done"
    /\ Len(processed) >= 1
    /\ recordFile[processed[1]].exists
    /\ Len(probed) < Len(history)

\* C2: with the records of the cache directory read as the published store,
\* in every reachable state a commit that has a record is followed by
\* records for every older commit.
C2_RecordsDownwardClosed ==
    \A c \in Commits : recordFile[c].exists =>
        \A o \in Commits : o < c => recordFile[o].exists

\* C3: when the run before this one ended with Ok, this run issues no vendor
\* request and leaves every record and every cached log as that run left it.
C3_SecondRunIdle ==
    prev.ok =>
        /\ requests = 0
        /\ recordFile = prev.recordFile
        /\ logFile = prev.logFile

\* A second run has ended after a first run that ended with Ok, and it went
\* through cache_commit for a commit whose record the first run wrote.
C3_Witness ==
    /\ prev.ok
    /\ pc = "done"
    /\ Len(processed) >= 1
    /\ \A i \in 1..Len(processed) : recordFile[processed[i]].exists

\* The vendor has no further build and the commit is not in the build map.
Exhausted ==
    /\ pc = "lookup"
    /\ \/ /\ commit \notin DOMAIN travis
          /\ Page(travisList, travis_offset) = << >>
       \/ /\ commit \in DOMAIN travis
          /\ commit \notin DOMAIN appveyor
          /\ Page(appveyorList, IF IsSome(appveyor_start_id)
                                THEN Unwrap(appveyor_start_id) ELSE 0) = << >>

\* C4: a lookup that gets an empty page while the commit is not in the
\* build map ends: the request is not repeated and the process does not
\* crash.
C4_LookupEndsNotFound ==
    [][(Exhausted /\ faults' = faults) => pc' \notin {"lookup", "panic"}]_vars

Kept(map, map2) == \A c \in DOMAIN map : c \in DOMAIN map2 /\ map2[c] = map[c]

\* C5: within a run no entry of a vendor build map is removed or replaced.
C5_BuildMapNeverReplaced ==
    [][runs' = runs => Kept(travis, travis') /\ Kept(appveyor, appveyor')]_vars

\* C6: a get_log whose cache file exists takes no step into the fetch
\* closure, leaves the cache and the count of vendor requests as they are,
\* and returns what the bytes of the file decode to.
C6_HitNoFetchNoWrite ==
    [][\A w \in 1..Len(workers) :
          ( /\ workers[w].st = "start"
            /\ logFile[workers[w].path].exists
            /\ w \in DOMAIN workers'
            /\ workers'[w] # workers[w] )
          => /\ workers'[w].st \in {"ok", "err"}
             /\ logFile' = logFile
             /\ requests' = requests
             /\ workers'[w].st = "ok" =>
                   /\ GzDecode(logFile[workers[w].path].raw).ok
                   /\ workers'[w].contents
                         = GzDecode(logFile[workers[w].path].raw).contents]_vars

\* A get_log has returned the text of a cache file.
C6_Witness ==
    \E w \in 1..Len(workers) :
        /\ workers[w].st = "ok"
        /\ workers[w].hit
        /\ workers[w].contents # << >>

\* C7: no file at a cache path is a partially written entry: every file
\* that exists there decodes.
C7_NoTornCacheEntry ==
    \A p \in Paths : logFile[p].exists => GzDecode(logFile[p].raw).ok

\* Every text of at most MaxLines lines over two lines comes back from the
\* bytes the miss path writes for it.
RoundTripAll ==
    \A t \in UNION {[1..n -> {<<"a">>, <<"b", "c">>}] : n \in 0..MaxLines} :
        ReadCached(Compressed(t)) = [st |-> "ok", contents |-> t]

\* C8: once the miss path of get_log has completed with the text t on a
\* path, the hit path on that path returns t, and so has every get_log that
\* returned on that path; and (a fact about the two conversions alone,
\* looked at in the initial states) this is so for every text.
C8_RoundTrip ==
    /\ runs = 0 => RoundTripAll
    /\ \A p \in Paths : IsSome(stored[p]) =>
          /\ logFile[p].exists
          /\ ReadCached(logFile[p].raw)
                = [st |-> "ok", contents |-> Unwrap(stored[p])]
          /\ \A w \in 1..Len(workers) :
                (workers[w].path = p /\ workers[w].st = "ok")
                    => workers[w].contents = Unwrap(stored[p])

\* A get_log has returned, on the hit path, the text with a repeated line
\* that a miss on that path stored.
C8_Witness ==
    \E w \in 1..Len(workers) :
        /\ workers[w].st = "ok"
        /\ workers[w].hit
        /\ IsSome(stored[workers[w].path])
        /\ workers[w].contents = LogSamples[1]


(***************************************************************************)
(* What the timing lines of a log say, line by line.                       *)
(***************************************************************************)
\* A `[RUSTC-TIMING] name v` line, its name and its value.
IsPart(line) == IsSome(find_get_after(line, "[RUSTC-TIMING]"))

PartName(line) ==
    LET r == Unwrap(find_get_after(line, "[RUSTC-TIMING]")) IN SubSeq(r, 1, Len(r) - 1)

PartValue(line) ==
    LET r == Unwrap(find_get_after(line, "[RUSTC-TIMING]")) IN
    Unwrap(parse_f64(SubSeq(r, Len(r), Len(r))))

\* A `[TIMING] step -- v` line, its step and its value.
IsPhase(line) ==
    /\ IsSome(find_get_after(line, "[TIMING]"))
    /\ IsSome(FindDashes(Unwrap(find_get_after(line, "[TIMING]"))))

PhaseStep(line) ==
    LET r == Unwrap(find_get_after(line, "[TIMING]")) IN
    SubSeq(r, 1, Unwrap(FindDashes(r)) - 1)

PhaseValue(line) ==
    LET r == Unwrap(find_get_after(line, "[TIMING]")) IN
    Unwrap(parse_f64(SubSeq(r, Unwrap(FindDashes(r)) + 1, Len(r))))

\* The part line i of log is closed by the phase line j: j is the first
\* `[TIMING]` line at or after i.
ClosedBy(log, i, j) ==
    /\ i <= j
    /\ IsPhase(log[j])
    /\ \A k \in i..(j - 1) : ~IsPhase(log[k])

\* The part lines of log with the name `name` that a `[TIMING]` line of
\* `step` closes.
PartsOf(log, step, name) ==
    {i \in 1..Len(log) :
        /\ IsPart(log[i])
        /\ PartName(log[i]) = name
        /\ \E j \in 1..Len(log) : ClosedBy(log, i, j) /\ PhaseStep(log[j]) = step}

\* The result the timing lines of log stand for.
Expected(log) ==
    LET phases == {j \in 1..Len(log) : IsPhase(log[j])}
        steps  == {PhaseStep(log[j]) : j \in phases}
        names  == {PartName(log[i]) : i \in {k \in 1..Len(log) : IsPart(log[k])}}
    IN  [s \in steps |->
            [dur   |-> SumOver({j \in phases : PhaseStep(log[j]) = s},
                               [j \in phases |-> PhaseValue(log[j])]),
             parts |-> [n \in {m \in names : PartsOf(log, s, m) # {}} |->
                          SumOver(PartsOf(log, s, n),
                                  [i \in PartsOf(log, s, n) |-> PartValue(log[i])])]]]

\* The lines of the log in hand that the loop has been through.
Seen == SubSeq(et_contents, 1, et_i - 1)

\* C9: after any number of lines of any log, extract_timings holds for each
\* step the sum of the values of its `[TIMING]` lines and, for each part
\* name, the sum of the values of the `[RUSTC-TIMING]` lines of that name
\* that a `[TIMING]` line of the step closes; repeated lines accumulate.
C9_TimingsAreSums == ~et_st.panicked => et_st.ret = Expected(Seen)

\* The log of the example with its `[TIMING]` line repeated has been read:
\* build has the duration 4.0 + 4.0 and the part crate_a 1.5 + 1.5.
C9_Witness ==
    /\ et_i > Len(et_contents)
    /\ et_contents = << <<"[RUSTC-TIMING]", "crate_a", "1.5">>,
                        <<"[RUSTC-TIMING]", "crate_a", "1.5">>,
                        <<"[TIMING]", "build", "--", "4.0">>,
                        <<"[TIMING]", "build", "--", "4.0">> >>
    /\ et_st.ret = (<<"build">> :> [dur |-> 80, parts |-> (<<"crate_a">> :> 30)])

\* The values of the part lines named `name` among the lines seen.
SeenParts(name) ==
    {i \in 1..Len(Seen) : IsPart(Seen[i]) /\ PartName(Seen[i]) = name}

\* What ret and the pending buffer hold for the part `name`, in total.
Counted(name) ==
    SumOver({s \in DOMAIN et_st.ret : name \in DOMAIN et_st.ret[s].parts},
            [s \in DOMAIN et_st.ret |->
                IF name \in DOMAIN et_st.ret[s].parts
                THEN et_st.ret[s].parts[name] ELSE 0])
      + (IF name \in DOMAIN et_st.parts THEN et_st.parts[name] ELSE 0)

\* C10: the pending buffer is empty right after a `[TIMING]` line that
\* closes a phase and at the start of every extraction; every part value
\* seen is counted once, in one phase or in the buffer; a part in a phase
\* has a `[TIMING]` line of that phase at or after it; and a part still in
\* the buffer when the log ends is in no phase.
C10_PendingOnlyToNext ==
    ~et_st.panicked =>
        /\ et_i = 1 => et_st.parts = EmptyMap /\ et_st.ret = EmptyMap
        /\ (et_i > 1 /\ IsPhase(et_contents[et_i - 1])) => et_st.parts = EmptyMap
        /\ \A i \in 1..Len(Seen) : IsPart(Seen[i]) =>
              Counted(PartName(Seen[i]))
                 = SumOver(SeenParts(PartName(Seen[i])),
                           [k \in SeenParts(PartName(Seen[i])) |-> PartValue(Seen[k])])
        /\ \A s \in DOMAIN et_st.ret : \A n \in DOMAIN et_st.ret[s].parts :
              PartsOf(Seen, s, n) # {}
        /\ \A n \in DOMAIN et_st.parts :
              \E i \in SeenParts(n) : \A j \in i..Len(Seen) : ~IsPhase(Seen[j])

\* A log has been read in which a part precedes a `[TIMING]` line and the
\* same part follows it: the first is in the phase, the second in no phase.
C10_Witness ==
    /\ et_i > Len(et_contents)
    /\ Len(et_contents) = 3
    /\ IsPart(et_contents[1]) /\ IsPhase(et_contents[2]) /\ IsPart(et_contents[3])
    /\ PartName(et_contents[1]) = PartName(et_contents[3])
    /\ et_st.ret[PhaseStep(et_contents[2])].parts[PartName(et_contents[1])]
          = PartValue(et_contents[1])
    /\ et_st.parts = (PartName(et_contents[3]) :> PartValue(et_contents[3]))


(***************************************************************************)
(* Failures while a commit's record is built.                              *)
(***************************************************************************)
\* Every log of ls has a job name and the log i has a timing line whose
\* value is no number.
MalformedAt(ls, i) ==
    /\ \A k \in 1..Len(ls) : identify_job(ls[k].contents).ok
    /\ extract_timings(ls[i].contents).panicked

\* C11: when the logs of a commit are complete and one of them has a timing
\* line whose value does not parse, that job alone fails: cache_commit goes
\* on without it and the run continues with the next commit.
C11_MalformedTimingSkipsJob ==
    [][(pc = "assemble" /\ faults' = faults
          /\ \E i \in 1..Len(logs) : MalformedAt(logs, i))
       => pc' = "iter"]_vars


(***************************************************************************)
(* What a log says about its job and its machine.                          *)
(***************************************************************************)
\* The first line of log with one of the lexemes of markers, or 0.
FirstLineWith(log, markers) ==
    IF \E l \in 1..Len(log) : \E i \in 1..Len(log[l]) : log[l][i] \in markers
    THEN CHOOSE l \in 1..Len(log) :
            /\ \E i \in 1..Len(log[l]) : log[l][i] \in markers
            /\ \A k \in 1..(l - 1) : \A i \in 1..Len(log[k]) : log[k][i] \notin markers
    ELSE 0

\* The text of line between its first lexeme of markers and the next "]"
\* (the end of the line when there is none).
Between(line, markers) ==
    LET m    == CHOOSE i \in 1..Len(line) :
                   line[i] \in markers /\ \A j \in 1..(i - 1) : line[j] \notin markers
        stop == CHOOSE e \in m..Len(line) :
                   /\ \A j \in (m + 1)..e : line[j] # "]"
                   /\ e = Len(line) \/ line[e + 1] = "]"
    IN  SubSeq(line, m + 1, stop)

\* What identify_job is to return for log when the marker is any of markers.
JobNamed(log, markers) ==
    IF FirstLineWith(log, markers) = 0 THEN [ok |-> FALSE, name |-> << >>]
    ELSE [ok |-> TRUE, name |-> Between(log[FirstLineWith(log, markers)], markers)]

\* C12, with the marker the code looks for, `[CI_JOB_NAME=` with its opening
\* bracket: identify_job returns the text between the marker and the next
\* `]` on the first line that contains the marker, and an error and no name
\* when no line contains it.
C12_IdentifyJob ==
    IsSome(call_job) => Unwrap(call_job) = JobNamed(call_log, {"[CI_JOB_NAME="})

\* C12 as stated, with the marker `CI_JOB_NAME=`, which a line contains
\* with or without a bracket before it.
C12_IdentifyJobBareMarker ==
    IsSome(call_job) =>
        Unwrap(call_job) = JobNamed(call_log, {"CI_JOB_NAME=", "[CI_JOB_NAME="})

\* identify_job has returned the name of a log whose first line has no
\* marker and whose second line has the marker after other text and two
\* "]" after it.
C12_Witness ==
    /\ Len(call_log) = 2
    /\ call_log[1] = <<"cpu family\t:", "6">>
    /\ call_log[2] = <<"echo", "[CI_JOB_NAME=", "test", "]", "done", "]">>
    /\ call_job = Some([ok |-> TRUE, name |-> <<"test">>])

\* The names a vendor makes up for a job without a name: Job<digits>.
IsPlaceholder(name) == name \in {<<"Job12">>}

\* C13: identify_job never returns a placeholder name: for a log whose
\* primary marker gives one it returns the second token after
\* `AGENT_JOBNAME=`, or an error when no line has that marker.
C13_PlaceholderFallsBack ==
    (IsSome(call_job) /\ JobNamed(call_log, {"[CI_JOB_NAME="}).ok
        /\ IsPlaceholder(JobNamed(call_log, {"[CI_JOB_NAME="}).name))
    => LET l == FirstLineWith(call_log, {"AGENT_JOBNAME="}) IN
       IF l = 0 THEN ~Unwrap(call_job).ok
       ELSE /\ Unwrap(call_job).ok
            /\ Unwrap(call_job).name
                  = SubSeq(Unwrap(find_get_after(call_log[l], "AGENT_JOBNAME=")), 2, 2)


\* The cache paths of the jobs of the commit in hand, AppVeyor's then
\* Travis's, each in the order of the vendor's job list.
JobPathsInHand ==
    [k \in 1..Len(JobsOf(appveyor[commit])) |->
        AppveyorPath(appveyor[commit], JobsOf(appveyor[commit])[k])]
      \o [k \in 1..Len(JobsOf(travis[commit])) |->
            TravisPath(JobsOf(travis[commit])[k])]

\* C14: while a worker of the commit in hand exists, the commit has no
\* record; results are added to logs only when every worker of the provider
\* has returned and all of them with Ok; and the record is written only
\* from the assembling step, with no worker left and with one log for every
\* job of both providers, in the order of the job lists.
C14_RecordAfterJoin ==
    /\ [](workers # << >> => ~recordFile[commit].exists)
    /\ [][/\ (logs' # logs /\ logs' # << >>) =>
                /\ workers # << >>
                /\ \A w \in 1..Len(workers) : workers[w].st = "ok"
                /\ logs' = logs \o [w \in 1..Len(workers) |->
                                      [job_url |-> workers[w].job_url,
                                       contents |-> workers[w].contents,
                                       path |-> workers[w].path]]
          /\ recordFile' # recordFile =>
                /\ pc = "assemble"
                /\ workers = << >>
                /\ [i \in 1..Len(logs) |-> logs[i].path] = JobPathsInHand
                /\ \A c \in Commits \ {commit} : recordFile'[c] = recordFile[c]]_vars

\* The record of a commit has been written from the logs of its four jobs,
\* after the workers of both providers had returned.
C14_Witness ==
    /\ pc = "iter"
    /\ idx >= 1
    /\ workers = << >>
    /\ Len(logs) = 4
    /\ recordFile[commit] = File(RecordBytes(Assemble(logs, 1, EmptyMap).jobs))


\* A log of ls has no job name.
Unidentified(ls) == \E k \in 1..Len(ls) : ~identify_job(ls[k].contents).ok

\* C15: a failure of one job is absorbed.  When the workers of a provider
\* have returned and one of them failed to get its log, the others' logs are
\* kept and the run goes on; when one log of the commit has no job name, a
\* record is written for the commit and the walk goes on to the next commit.
C15_JobFailureAbsorbed ==
    [][/\ (pc \in {"appveyor_logs", "travis_logs"} /\ AllDone /\ AnyErr
             /\ workers' # workers)
          => pc' \in {"travis_logs_start", "assemble"}
       /\ (pc = "assemble" /\ Unidentified(logs) /\ faults' = faults)
          => pc' = "iter" /\ recordFile'[commit].exists]_vars


\* C16: a failure of a cache write or of the serialization ends the run
\* with an error and leaves no record for the commit.  A worker whose write
\* failed makes the join end the run; a failure while the record is
\* serialized and written ends the run with no record at the commit's path;
\* and a run that has ended with an error takes no further step.
C16_WriteFailureAborts ==
    [][/\ (pc \in {"appveyor_logs", "travis_logs"} /\ AllDone /\ AnyErr
             /\ workers' # workers)
          => pc' = "error" /\ recordFile' = recordFile
       /\ (pc = "assemble" /\ faults' > faults)
          => pc' = "error" /\ ~recordFile'[commit].exists
       /\ pc = "error" => runs' = runs + 1]_vars


(***************************************************************************)
(* overall.json.                                                           *)
(***************************************************************************)
\* The jobs of the commit sha in the window get_commits returned.
JobsOfCommit(sha) ==
    (CHOOSE r \in {bs_commits[i] : i \in 1..Len(bs_commits)} : r.sha = sha).jobs

\* The job names of the window.
WindowJobs == UNION {DOMAIN bs_commits[i].jobs : i \in 1..Len(bs_commits)}

\* The sum of the durations of the phases of timings other than Distcheck.
Charted(timings) ==
    SumOver({t \in DOMAIN timings : t # <<"Distcheck">>},
            [t \in DOMAIN timings |-> timings[t].dur])

\* The document has the commits of the window, oldest first, one series for
\* each job name of the window and one value per commit in every series.
Aligned(o) ==
    /\ Len(o.commits) = Len(bs_commits)
    /\ {o.commits[i] : i \in 1..Len(o.commits)}
          = {bs_commits[i].sha : i \in 1..Len(bs_commits)}
    /\ \A i, j \in 1..Len(o.commits) : i < j => o.commits[i] < o.commits[j]
    /\ {o.series[k].name : k \in 1..Len(o.series)} = WindowJobs
    /\ \A k, l \in 1..Len(o.series) : o.series[k].name = o.series[l].name => k = l
    /\ \A k \in 1..Len(o.series) : Len(o.series[k].data) = Len(o.commits)

\* C17, with what a series holds for a commit on which the job ran: in
\* overall.json every series has one value per commit of the window, the
\* commits and every series are oldest first, position i of a series
\* belongs to commit i, and the value is 0 where the job did not run and
\* the sum of the job's phase durations other than Distcheck where it ran
\* (which is 0 for a job without such a phase).
C17_SeriesAligned ==
    IsSome(overall) =>
        LET o == Unwrap(overall) IN
        /\ Aligned(o)
        /\ \A k \in 1..Len(o.series) : \A i \in 1..Len(o.commits) :
              LET cj == JobsOfCommit(o.commits[i]) IN
              o.series[k].data[i]
                 = IF o.series[k].name \in DOMAIN cj
                   THEN Charted(cj[o.series[k].name].timings) ELSE 0

\* C17 as stated: a series holds 0 at exactly the positions of the commits
\* on which the job did not run.
C17_ZeroExactlyWhereAbsent ==
    IsSome(overall) =>
        LET o == Unwrap(overall) IN
        /\ Aligned(o)
        /\ \A k \in 1..Len(o.series) : \A i \in 1..Len(o.commits) :
              (o.series[k].data[i] = 0)
                 <=> (o.series[k].name \notin DOMAIN JobsOfCommit(o.commits[i]))

\* overall.json has been written for a window of two commits with a job
\* that ran on the newer commit only: its series holds 0 and then its
\* duration.
C17_Witness ==
    /\ IsSome(overall)
    /\ Len(bs_commits) = 2
    /\ <<"a">> \in DOMAIN bs_commits[1].jobs
    /\ <<"a">> \notin DOMAIN bs_commits[2].jobs
    /\ \E k \in 1..Len(Unwrap(overall).series) :
          /\ Unwrap(overall).series[k].name = <<"a">>
          /\ Unwrap(overall).series[k].data = <<0, 40>>

\* The commits of the window on which job ran, and the job's total over
\* them without Distcheck.
RanOn(job) == {i \in 1..Len(bs_commits) : job \in DOMAIN bs_commits[i].jobs}

RankedTotal(job) ==
    SumOver(RanOn(job),
            [i \in RanOn(job) |-> Charted(bs_commits[i].jobs[job].timings)])

\* C18: the series of overall.json are in the order of descending mean
\* total duration, Distcheck left out: a job whose mean is greater than
\* another's comes before it.  (Means are compared as fractions.)
C18_RankedByMean ==
    IsSome(overall) =>
        LET o == Unwrap(overall) IN
        \A k, l \in 1..Len(o.series) :
            RankedTotal(o.series[k].name) * Cardinality(RanOn(o.series[l].name))
                > RankedTotal(o.series[l].name) * Cardinality(RanOn(o.series[k].name))
            => k < l


(***************************************************************************)
(* The machine of a log.                                                   *)
(***************************************************************************)
\* The value of line for a key (the text after it), or None.
ValueOf(line, key) ==
    IF Len(line) >= 2 /\ \E i \in 1..(Len(line) - 1) : line[i] = key
    THEN Some(SubSeq(line,
                     (CHOOSE i \in 1..(Len(line) - 1) :
                         line[i] = key /\ \A j \in 1..(i - 1) : line[j] # key) + 1,
                     Len(line)))
    ELSE None

\* The first `cpu family` line of log, and the first `model` line after it
\* (0 when there is none).
FamilyLine(log) ==
    IF \E l \in 1..Len(log) : IsSome(ValueOf(log[l], "cpu family\t:"))
    THEN CHOOSE l \in 1..Len(log) :
            /\ IsSome(ValueOf(log[l], "cpu family\t:"))
            /\ \A k \in 1..(l - 1) : ~IsSome(ValueOf(log[k], "cpu family\t:"))
    ELSE 0

ModelLine(log) ==
    IF FamilyLine(log) # 0
         /\ \E l \in (FamilyLine(log) + 1)..Len(log) : IsSome(ValueOf(log[l], "model\t\t:"))
    THEN CHOOSE l \in (FamilyLine(log) + 1)..Len(log) :
            /\ IsSome(ValueOf(log[l], "model\t\t:"))
            /\ \A k \in (FamilyLine(log) + 1)..(l - 1) :
                  ~IsSome(ValueOf(log[k], "model\t\t:"))
    ELSE 0

\* C19: extract_cpu_microarch returns the microarchitecture that the table
\* has for the family of the first `cpu family` line and the model of the
\* first `model` line after it, and no value when the log lacks one of the
\* two lines or the table has no row for the pair; it has no other outcome.
C19_CpuMicroarch ==
    IsSome(call_cpu) =>
        LET T   == INTEL_CPU_MODEL_TO_MICROARCH
            f   == FamilyLine(call_log)
            m   == ModelLine(call_log)
            hit == IF m = 0 THEN {}
                   ELSE {r \in 1..Len(T) :
                           /\ T[r][1] = Unwrap(ValueOf(call_log[f], "cpu family\t:"))
                           /\ T[r][2] = Unwrap(ValueOf(call_log[m], "model\t\t:"))}
        IN  /\ hit = {} => Unwrap(call_cpu) = None
            /\ hit # {} => \A r \in hit : Unwrap(call_cpu) = Some(T[r][3])
            /\ (f # 0 /\ m # 0
                  /\ ValueOf(call_log[f], "cpu family\t:") = Some(<<"6">>)
                  /\ ValueOf(call_log[m], "model\t\t:") = Some(<<"85">>))
               => Unwrap(call_cpu) = Some("skylake")

\* extract_cpu_microarch has returned skylake for a log with a model line
\* before the family line, then family 6, then model 85.
C19_Witness ==
    /\ call_log = << <<"model\t\t:", "99">>, <<"cpu family\t:", "6">>,
                    <<"model\t\t:", "85">> >>
    /\ call_cpu = Some(Some("skylake"))


(***************************************************************************)
(* The end of the git log.                                                 *)
(***************************************************************************)
\* C20: the sequence of commits ends after the last line of the git log:
\* a walk that has been through every commit of the history without
\* finding one in the remote store ends there, with Ok.
C20_HistoryEnds ==
    [][(pc = "iter" /\ idx = Len(history) /\ faults' = faults) => pc' = "done"]_vars


\* The name identify_job gives the i-th collected log.
NameOf(ls, i) == identify_job(ls[i].contents).name

\* The place in ls of the last log that resolves to the name n.
LastNamed(ls, n) ==
    CHOOSE i \in 1..Len(ls) :
        /\ NameOf(ls, i) = n
        /\ \A j \in 1..Len(ls) : NameOf(ls, j) = n => j <= i

\* The jobs of a record that keeps, for every name, the last log with it.
LaterJobs(ls) ==
    [n \in {NameOf(ls, i) : i \in 1..Len(ls)} |->
        [url |-> ls[LastNamed(ls, n)].job_url,
         path |-> ls[LastNamed(ls, n)].path,
         cpu_microarch |-> extract_cpu_microarch(ls[LastNamed(ls, n)].contents),
         timings |-> extract_timings(ls[LastNamed(ls, n)].contents).ret]]

\* C21: whenever the record of a commit is written whole, the collected
\* logs are those of AppVeyor's jobs and then Travis's, each in the order
\* of the vendor's job list whatever the order the workers returned in, and
\* the record holds, for every job name, the job of the last collected log
\* with that name: an earlier job with the same name is dropped.
C21_LaterJobKept ==
    [][(recordFile' # recordFile /\ faults' = faults) =>
          /\ [i \in 1..Len(logs) |-> logs[i].path] = JobPathsInHand
          /\ pc' = "iter"
          /\ recordFile'[commit] = File(RecordBytes(LaterJobs(logs)))]_vars

\* A record has been written for a commit whose two Travis jobs have the
\* same job name and different logs: it holds the second job of the list
\* under that name, and nothing of the first.
C21_Witness ==
    /\ pc = "iter"
    /\ Len(logs) = 4
    /\ NameOf(logs, 3) = NameOf(logs, 4)
    /\ logs[3].contents # logs[4].contents
    /\ ReadRecord(recordFile[commit]).ok
    /\ ReadRecord(recordFile[commit]).jobs[NameOf(logs, 4)].path = logs[4].path
    /\ \A n \in DOMAIN ReadRecord(recordFile[commit]).jobs :
          ReadRecord(recordFile[commit]).jobs[n].path # logs[3].path


\* The positions of a run at which it works for the commit in hand: the
\* call of cache_commit has been made and has not returned.
InCacheCommit ==
    {"cache_commit", "lookup", "appveyor_logs", "travis_logs_start",
     "travis_logs", "assemble"}

\* The positions at which cache_commit asks a vendor or fetches a log.
Asking == {"lookup", "appveyor_logs", "travis_logs_start", "travis_logs"}

\* C22: the commits are worked on one at a time and in the order of the
\* history.  While cache_commit of a commit runs, cache_commit of every
\* newer commit of the run has returned and left its record, and every
\* worker that exists fetches a log of a job of that one commit.  The gate
\* is probed only between two calls of cache_commit, with no worker left,
\* for the commit that follows the last one in the history; and a vendor is
\* asked, a log is fetched and a worker starts or returns only inside
\* cache_commit of the commit in hand.
C22_OneCommitAtATime ==
    /\ [](/\ pc \in InCacheCommit =>
                /\ idx \in 1..Len(history)
                /\ processed = SubSeq(history, 1, idx)
                /\ \A i \in 1..(idx - 1) : recordFile[history[i]].exists
          /\ workers # << >> =>
                /\ pc \in {"appveyor_logs", "travis_logs"}
                /\ \A w \in 1..Len(workers) :
                      \E k \in 1..Len(JobPathsInHand) :
                          workers[w].path = JobPathsInHand[k])
    /\ [][/\ (probed' # probed /\ runs' = runs) =>
                /\ pc = "iter"
                /\ workers = << >> /\ workers' = << >>
                /\ idx' = idx + 1
                /\ probed' = Append(probed, history[idx + 1])
                /\ \A i \in 1..idx : recordFile[history[i]].exists
          /\ ((requests' # requests \/ workers' # workers \/ logFile' # logFile
                  \/ travis' # travis \/ appveyor' # appveyor) /\ runs' = runs) =>
                /\ pc \in Asking
                /\ idx' = idx]_vars

\* In one run the record of the newest commit has been written from its
\* four logs, the next commit has been probed, and a worker of that commit
\* has fetched a log while another has not started.
C22_Witness ==
    /\ runs = 1
    /\ idx = 2
    /\ processed = SubSeq(history, 1, 2)
    /\ ReadRecord(recordFile[history[1]]).ok
    /\ pc \in {"appveyor_logs", "travis_logs"}
    /\ \E w \in 1..Len(workers) : workers[w].st = "fetched"
    /\ \E w \in 1..Len(workers) : workers[w].st = "start"

=============================================================================
